---- MODULE Spec2Model ----
(***************************************************************************)
(* Model of the admin read API in api.js: ten GET handlers over a          *)
(* PostgreSQL store.  Every handler creates its own pg Client, connects,   *)
(* issues its queries, sends one JSON response and ends the client in a    *)
(* finally block.  An action of the model is one run of a handler between  *)
(* two awaits.                                                             *)
(*                                                                         *)
(* Text is modelled as a sequence of symbols.  A symbol is a single        *)
(* character ("1", ".", "@", "-") or a run of letters written as one       *)
(* symbol ("users", "search", "a"): letter runs are never digits, signs,   *)
(* dots or the handle marker, which is all the code looks at.              *)
(***************************************************************************)
EXTENDS Integers, Sequences, FiniteSets, TLC

(***************************************************************************)
(* Bounds of the model.                                                    *)
(***************************************************************************)
\* length of the generated path segments of the identifier specification
MaxSegLen == 3
\* largest total a count query returns
MaxTotal == 5
\* largest timestamp of a stored conversation or message (activity feed)
MaxTs == 3
\* largest number of rows per table in the activity feed specification
MaxRows == 3
\* largest number of rows of the conversations table the dashboard fallback
\* aggregates
MaxConvRows == 2
\* decimal places of the text the store returns for an average
AvgScale == 2

(***************************************************************************)
(* JavaScript values and conversions.                                      *)
(***************************************************************************)
Digits == {"0", "1", "2", "3", "4", "5", "6", "7", "8", "9"}

DigitVal(c) ==
  CASE c = "0" -> 0 [] c = "1" -> 1 [] c = "2" -> 2 [] c = "3" -> 3
    [] c = "4" -> 4 [] c = "5" -> 5 [] c = "6" -> 6 [] c = "7" -> 7
    [] c = "8" -> 8 [] c = "9" -> 9

\* a JavaScript number that is NaN, or the integer v
NaN == [isNaN |-> TRUE, val |-> 0]
Num(v) == [isNaN |-> FALSE, val |-> v]

\* a query-string parameter: absent (undefined) or a text
Absent == [present |-> FALSE, text |-> <<>>]
Text(s) == [present |-> TRUE, text |-> s]

RECURSIVE DigitsPrefix(_)
\* the longest prefix of s made of decimal digits
DigitsPrefix(s) ==
  IF s = <<>> \/ Head(s) \notin Digits THEN <<>>
  ELSE <<Head(s)>> \o DigitsPrefix(Tail(s))

RECURSIVE DecimalValue(_)
\* the value of a sequence of decimal digits
DecimalValue(ds) ==
  IF ds = <<>> THEN 0
  ELSE 10 * DecimalValue(SubSeq(ds, 1, Len(ds) - 1)) + DigitVal(ds[Len(ds)])

\* parseInt(s): an optional sign, then the longest run of digits; NaN when
\* there is none.  Whatever follows the digits is ignored.
ParseInt(s) ==
  LET neg  == s # <<>> /\ Head(s) = "-"
      body == IF s # <<>> /\ Head(s) \in {"-", "+"} THEN Tail(s) ELSE s
      ds   == DigitsPrefix(body)
  IN  IF ds = <<>> THEN NaN
      ELSE Num(IF neg THEN 0 - DecimalValue(ds) ELSE DecimalValue(ds))

\* parseInt(req.query.x): undefined is converted to the text "undefined"
ParseIntParam(p) == IF p.present THEN ParseInt(p.text) ELSE NaN

\* n || d for a number n: NaN and 0 are falsy
OrDefault(n, d) == IF n.isNaN \/ n.val = 0 THEN d ELSE n.val

\* req.query.x || '': undefined and '' both give ''
OrEmpty(p) == IF p.present THEN p.text ELSE <<>>

\* truthiness of a string
Truthy(s) == s # <<>>

\* the position of the first "." of s, or 0
FirstDot(s) ==
  IF \E i \in 1..Len(s) : s[i] = "."
  THEN CHOOSE i \in 1..Len(s) : s[i] = "." /\ \A j \in 1..(i - 1) : s[j] # "."
  ELSE 0

AllDigits(s) == \A i \in 1..Len(s) : s[i] \in Digits

\* Number(s) as a fraction num/den, or NaN: the StringNumericLiteral grammar
\* restricted to signs, digits and one decimal point ('' is 0).
ToNumber(s) ==
  LET neg  == s # <<>> /\ Head(s) = "-"
      body == IF s # <<>> /\ Head(s) \in {"-", "+"} THEN Tail(s) ELSE s
      d    == FirstDot(body)
      ip   == IF d = 0 THEN body ELSE SubSeq(body, 1, d - 1)
      fp   == IF d = 0 THEN <<>> ELSE SubSeq(body, d + 1, Len(body))
      mag  == DecimalValue(ip \o fp)
  IN  IF s = <<>> THEN [isNaN |-> FALSE, num |-> 0, den |-> 1]
      ELSE IF AllDigits(ip) /\ AllDigits(fp) /\ Len(ip) + Len(fp) >= 1
      THEN [isNaN |-> FALSE, num |-> IF neg THEN 0 - mag ELSE mag,
            den |-> 10 ^ Len(fp)]
      ELSE [isNaN |-> TRUE, num |-> 0, den |-> 1]

\* isNaN(s) for a string s
IsNaN(s) == ToNumber(s).isNaN

\* Math.floor(a / b) in the place of Math.ceil
MathFloor(a, b) == IF b > 0 THEN a \div b ELSE (0 - a) \div (0 - b)

\* Math.ceil(a / b) for integers a and b, b # 0
MathCeil(a, b) ==
  IF b > 0 THEN 0 - ((0 - a) \div b)
  ELSE 0 - (a \div (0 - b))

\* Math.round(x) for x = num / den, den > 0: the nearest integer, halves up
MathRound(x) ==
  IF x.isNaN THEN NaN ELSE Num((2 * x.num + x.den) \div (2 * x.den))

\* v || 0 as the text parseInt and Math.round convert: null, undefined and
\* '' give 0, whose text is "0"
OrZero(v) == IF Truthy(OrEmpty(v)) THEN v.text ELSE <<"0">>

DigitChar(d) ==
  CASE d = 0 -> "0" [] d = 1 -> "1" [] d = 2 -> "2" [] d = 3 -> "3"
    [] d = 4 -> "4" [] d = 5 -> "5" [] d = 6 -> "6" [] d = 7 -> "7"
    [] d = 8 -> "8" [] d = 9 -> "9"

RECURSIVE ToText(_)
\* the decimal text of a natural number, as the store returns a bigint
ToText(n) ==
  IF n < 10 THEN <<DigitChar(n)>>
  ELSE ToText(n \div 10) \o <<DigitChar(n % 10)>>

RECURSIVE ZeroPad(_, _)
\* s with zeros in front of it up to w symbols
ZeroPad(s, w) == IF Len(s) >= w THEN s ELSE ZeroPad(<<"0">> \o s, w)

\* the text of the numeric num / den (num >= 0, den > 0) with AvgScale
\* decimal places, the last one rounded
NumericText(num, den) ==
  LET unit   == 10 ^ AvgScale
      scaled == (2 * num * unit + den) \div (2 * den)
  IN  ToText(scaled \div unit) \o <<".">> \o ZeroPad(ToText(scaled % unit), AvgScale)

(***************************************************************************)
(* Routing: Express tries the routes in the order of their registration    *)
(* and runs the first whose pattern matches the path.  A path is the       *)
(* sequence of its segments after /api.                                    *)
(***************************************************************************)
Lit(w) == [param |-> FALSE, word |-> <<w>>]
Param == [param |-> TRUE, word |-> <<>>]

\* the route patterns, in registration order
Routes ==
  << [name |-> "dashboard",         pattern |-> <<Lit("dashboard"), Lit("stats")>>],
     [name |-> "users",             pattern |-> <<Lit("users")>>],
     [name |-> "userDetails",       pattern |-> <<Lit("users"), Param>>],
     [name |-> "conversations",     pattern |-> <<Lit("conversations")>>],
     [name |-> "conversationDetails", pattern |-> <<Lit("conversations"), Param>>],
     [name |-> "messages",          pattern |-> <<Lit("messages")>>],
     [name |-> "userConversations", pattern |-> <<Lit("users"), Param, Lit("conversations")>>],
     [name |-> "searchUsers",       pattern |-> <<Lit("users"), Lit("search"), Param>>],
     [name |-> "activity",          pattern |-> <<Lit("activity"), Lit("recent")>>],
     [name |-> "analytics",         pattern |-> <<Lit("analytics"), Lit("usage")>>] >>

\* a pattern matches a path of the same length whose literal segments are
\* equal; a parameter takes any non-empty segment
Matches(pattern, path) ==
  /\ Len(pattern) = Len(path)
  /\ \A i \in 1..Len(path) :
       IF pattern[i].param THEN path[i] # <<>> ELSE path[i] = pattern[i].word

\* the name of the first registered route matching the path ("none": no
\* handler of api.js runs)
Dispatch(path) ==
  IF \E i \in 1..Len(Routes) : Matches(Routes[i].pattern, path)
  THEN Routes[CHOOSE i \in 1..Len(Routes) :
                /\ Matches(Routes[i].pattern, path)
                /\ \A j \in 1..(i - 1) : ~Matches(Routes[j].pattern, path)].name
  ELSE "none"

\* the context label each handler passes to handleError
Context(route) ==
  CASE route = "dashboard"           -> "dashboard stats"
    [] route = "users"               -> "get users"
    [] route = "userDetails"         -> "get user details"
    [] route = "conversations"       -> "get conversations"
    [] route = "conversationDetails" -> "get conversation details"
    [] route = "messages"            -> "get messages"
    [] route = "userConversations"   -> "get user conversations"
    [] route = "searchUsers"         -> "search users"
    [] route = "activity"            -> "get recent activity"
    [] route = "analytics"           -> "get usage analytics"

\* the top-level keys of the object each handler passes to res.json
BodyKeys(route) ==
  CASE route = "dashboard"           -> {"users", "conversations", "messages"}
    [] route = "users"               -> {"users", "pagination"}
    [] route = "userDetails"         -> {"user", "stats", "recentConversations"}
    [] route = "conversations"       -> {"conversations", "pagination"}
    [] route = "conversationDetails" -> {"conversation", "messages"}
    [] route = "messages"            -> {"messages", "pagination"}
    [] route = "userConversations"   -> {"conversations", "pagination"}
    [] route = "searchUsers"         -> {"users"}
    [] route = "activity"            -> {"activity"}
    [] route = "analytics"           -> {"userRegistrations", "conversations",
                                         "messages", "activeUsers"}

\* the default page size of each paginated handler
DefaultLimit(route) == IF route = "messages" THEN 50 ELSE 20

(***************************************************************************)
(* The filter predicate.  whereClause is a sequence of tokens: the         *)
(* keywords WHERE and AND, and one token per condition carrying the index  *)
(* of its $ placeholder.                                                   *)
(***************************************************************************)
WhereTok == [t |-> "WHERE", ph |-> 0]
AndTok == [t |-> "AND", ph |-> 0]
Cond(c, i) == [t |-> c, ph |-> i]

\* bound parameter values
PText(s) == [kind |-> "text", text |-> s, n |-> 0]
PInt(v) == [kind |-> "int", text |-> <<>>, n |-> v]
PNaN == [kind |-> "NaN", text |-> <<>>, n |-> 0]
PNum(x) == IF x.isNaN THEN PNaN ELSE PInt(x.val)
\* `%${search}%`
Like(s) == PText(<<"%">> \o s \o <<"%">>)

\* let whereClause = ''; let queryParams = []; let paramIndex = 1
EmptyPredicate == [where |-> <<>>, params |-> <<>>, paramIndex |-> 1]

\* AddFilter with every condition introduced by WHERE
AddFilterAlwaysWhere(b, value, earlier, cond, param) ==
  IF Truthy(value)
  THEN [where      |-> b.where \o <<WhereTok, Cond(cond, b.paramIndex)>>,
        params     |-> Append(b.params, param),
        paramIndex |-> b.paramIndex + 1]
  ELSE b

\* AddFilter without paramIndex++
AddFilterNoIncrement(b, value, earlier, cond, param) ==
  IF Truthy(value)
  THEN [where      |-> b.where \o <<IF earlier THEN AndTok ELSE WhereTok,
                                    Cond(cond, b.paramIndex)>>,
        params     |-> Append(b.params, param),
        paramIndex |-> b.paramIndex]
  ELSE b

\* one `if (value) { whereClause += earlier ? ' AND c' : ' WHERE c';
\* queryParams.push(param); paramIndex++ }` block; earlier is the handler's
\* own test of the filters declared before this one
AddFilter(b, value, earlier, cond, param) ==
  IF Truthy(value)
  THEN [where      |-> b.where \o <<IF earlier THEN AndTok ELSE WhereTok,
                                    Cond(cond, b.paramIndex)>>,
        params     |-> Append(b.params, param),
        paramIndex |-> b.paramIndex + 1]
  ELSE b

\* GET /api/users: search, gender
UsersPredicate(q) ==
  LET search == OrEmpty(q.search)
      gender == OrEmpty(q.gender)
      b1 == AddFilter(EmptyPredicate, search, FALSE, "username ILIKE", Like(search))
  IN  AddFilter(b1, gender, Truthy(search), "gender =", PText(gender))

\* GET /api/conversations: status, search
ConversationsPredicate(q) ==
  LET status == OrEmpty(q.status)
      search == OrEmpty(q.search)
      b1 == AddFilter(EmptyPredicate, status, FALSE, "status =", PText(status))
  IN  AddFilter(b1, search, Truthy(status),
                "user1_username ILIKE or user2_username ILIKE", Like(search))

\* GET /api/messages: conversation_id, user_id, search, date_from, date_to
MessagesPredicate(q) ==
  LET conversationId == OrEmpty(q.conversation_id)
      userId   == OrEmpty(q.user_id)
      search   == OrEmpty(q.search)
      dateFrom == OrEmpty(q.date_from)
      dateTo   == OrEmpty(q.date_to)
      b1 == AddFilter(EmptyPredicate, conversationId, FALSE,
                      "conversation_id =", PText(conversationId))
      b2 == AddFilter(b1, userId, Truthy(conversationId),
                      "sender_user_id = or receiver_user_id =",
                      PNum(ParseInt(userId)))
      b3 == AddFilter(b2, search, Truthy(conversationId) \/ Truthy(userId),
                      "message ILIKE", Like(search))
      b4 == AddFilter(b3, dateFrom,
                      Truthy(conversationId) \/ Truthy(userId) \/ Truthy(search),
                      "timestamp >=", PText(dateFrom))
  IN  AddFilter(b4, dateTo,
                Truthy(conversationId) \/ Truthy(userId) \/ Truthy(search)
                  \/ Truthy(dateFrom),
                "timestamp <=", PText(dateTo))

\* the predicate of a filtered list handler
Predicate(route, q) ==
  CASE route = "users"         -> UsersPredicate(q)
    [] route = "conversations" -> ConversationsPredicate(q)
    [] route = "messages"      -> MessagesPredicate(q)
    [] OTHER                   -> EmptyPredicate

(***************************************************************************)
(* The store.  The API only reads it, so its content is fixed in the       *)
(* initial state: db.total is what a count query returns, db.summaryRows    *)
(* the number of rows of conversation_stats, db.conversations and          *)
(* db.messages the timestamps of the rows of the two activity tables, most *)
(* recent first (the order ORDER BY ... DESC returns them in).             *)
(***************************************************************************)
StoredUsers == {[user_id |-> 1, username |-> <<"@", "a">>]}
StoredConversations == {<<"1">>}

\* the kinds of rows of the conversations table the dashboard fallback
\* tells apart: status, message_count, and whether started_at is today
ConversationKinds ==
  [status : {"active", "ended"}, message_count : {1, 2}, today : BOOLEAN]

RECURSIVE SumOver(_, _)
\* the sum of f[k] over the kinds ks
SumOver(f, ks) ==
  IF ks = {} THEN 0
  ELSE LET k == CHOOSE x \in ks : TRUE IN f[k] + SumOver(f, ks \ {k})

\* a row of five columns that are all null
NoRow ==
  [total_conversations |-> Absent, active_conversations |-> Absent,
   ended_conversations |-> Absent, avg_messages_per_conversation |-> Absent,
   conversations_today |-> Absent]

\* the one row conversationStatsFallbackQuery returns over a table given as
\* the number of its rows of each kind: COUNT is a bigint, returned as text;
\* AVG is a numeric, returned as text, and null over no rows
FallbackRow(table) ==
  LET count(ks) == SumOver(table, ks)
      total  == count(ConversationKinds)
      weight == [k \in ConversationKinds |-> table[k] * k.message_count]
  IN  [total_conversations |-> Text(ToText(total)),
       active_conversations |->
         Text(ToText(count({k \in ConversationKinds : k.status = "active"}))),
       ended_conversations |->
         Text(ToText(count({k \in ConversationKinds : k.status = "ended"}))),
       avg_messages_per_conversation |->
         IF total = 0 THEN Absent
         ELSE Text(NumericText(SumOver(weight, ConversationKinds), total)),
       conversations_today |->
         Text(ToText(count({k \in ConversationKinds : k.today})))]

VARIABLES
  db,        \* the content of the store
  created,   \* created[c]: the request whose handler created client c
  req        \* req[r]: the state of request r and of its handler

vars == <<db, created, req>>

Slots == {1, 2}

NoQuery ==
  [page |-> Absent, limit |-> Absent, search |-> Absent, gender |-> Absent,
   status |-> Absent, conversation_id |-> Absent, user_id |-> Absent,
   date_from |-> Absent, date_to |-> Absent]

NoLookup == [byId |-> FALSE, param |-> PNaN]

NoPagination ==
  [currentPage |-> 0, totalPages |-> 0, total |-> 0,
   hasNext |-> FALSE, hasPrev |-> FALSE]

IdleRequest ==
  [pc |-> "idle", route |-> "none", path |-> <<>>, query |-> NoQuery,
   client |-> 0, conn |-> "none", endCalls |-> 0,
   stage |-> "none", pending |-> {}, issued |-> <<>>, failed |-> {},
   page |-> 0, limit |-> 0, offset |-> 0, lookup |-> NoLookup,
   total |-> 0, found |-> FALSE, userId |-> 0, summaryRows |-> 0,
   conversationStats |-> NoRow,
   conversations |-> <<>>, messages |-> <<>>, resp |-> <<>>]

(***************************************************************************)
(* Pieces of the handlers.                                                 *)
(***************************************************************************)
\* the count query given queryParams itself
SliceNothing(s) == s

\* queryParams.slice(0, -2)
SliceOffTwo(s) == SubSeq(s, 1, Len(s) - 2)

\* array.slice(0, n)
SliceTo(s, n) ==
  IF n >= 0 THEN SubSeq(s, 1, IF n < Len(s) THEN n ELSE Len(s))
  ELSE SubSeq(s, 1, Len(s) + n)

\* one client.query(text, params) call
Query(name, where, params, ph) ==
  [name |-> name, where |-> where, params |-> params, ph |-> ph]

\* the handler calls client.query for each of qs, in this order, on its own
\* client, and awaits them together
Issue(rq, stage, qs) ==
  [rq EXCEPT !.stage = stage,
             !.pc = "awaiting",
             !.pending = {qs[i].name : i \in 1..Len(qs)},
             !.issued = @ \o [i \in 1..Len(qs) |->
                                [client |-> rq.client, q |-> qs[i]]]]

\* an early `return res.status(404)...` that leaves without client.end()
FinallySkippedOnReturn(rq) ==
  IF rq.resp # <<>> /\ rq.resp[Len(rq.resp)].status = 404
  THEN [rq EXCEPT !.pc = "done"]
  ELSE [rq EXCEPT !.pc = "ending", !.endCalls = @ + 1]

\* finally { await client.end() }: the call
Finally(rq) == [rq EXCEPT !.pc = "ending", !.endCalls = @ + 1]

\* res.json(...) or res.status(...).json(...), then the finally block
Reply(rq, response) == Finally([rq EXCEPT !.resp = Append(@, response)])

\* the conversations object of a response that has none
NoConversations ==
  [total |-> NaN, active |-> NaN, ended |-> NaN, avgMessages |-> NaN,
   today |-> NaN]

Response200(rq, pagination, activity) ==
  [status |-> 200, keys |-> BodyKeys(rq.route), error |-> "", message |-> "",
   context |-> "", pagination |-> pagination, activity |-> activity,
   conversations |-> NoConversations]

Response404(entity) ==
  [status |-> 404, keys |-> {"error"}, error |-> entity, message |-> "",
   context |-> "", pagination |-> NoPagination, activity |-> <<>>,
   conversations |-> NoConversations]

\* handleError(res, error, context): error is the rejection of the call
\* named cause, whose message the response carries
HandleError(rq, cause) ==
  Reply(rq, [status |-> 500, keys |-> {"error", "message", "context"},
             error |-> "Internal server error", message |-> cause,
             context |-> Context(rq.route),
             pagination |-> NoPagination, activity |-> <<>>,
             conversations |-> NoConversations])

\* the conversations object of the dashboard response with the average cut
\* to its integer part instead of rounded
ConversationsObjectUnrounded(row) ==
  [total       |-> ParseInt(OrZero(row.total_conversations)),
   active      |-> ParseInt(OrZero(row.active_conversations)),
   ended       |-> ParseInt(OrZero(row.ended_conversations)),
   avgMessages |-> ParseInt(OrZero(row.avg_messages_per_conversation)),
   today       |-> ParseInt(OrZero(row.conversations_today))]

\* conversations: { total: parseInt(conversationStats.total_conversations
\* || 0), ..., avgMessages: Math.round(... || 0), ... }
ConversationsObject(row) ==
  [total       |-> ParseInt(OrZero(row.total_conversations)),
   active      |-> ParseInt(OrZero(row.active_conversations)),
   ended       |-> ParseInt(OrZero(row.ended_conversations)),
   avgMessages |-> MathRound(ToNumber(OrZero(row.avg_messages_per_conversation))),
   today       |-> ParseInt(OrZero(row.conversations_today))]

\* the res.json of the dashboard handler
DashboardResponse(rq) ==
  [Response200(rq, NoPagination, <<>>) EXCEPT
     !.conversations = ConversationsObject(rq.conversationStats)]

\* page, limit and offset as the paginated handlers compute them
Paging(rq) ==
  LET page  == OrDefault(ParseIntParam(rq.query.page), 1)
      limit == OrDefault(ParseIntParam(rq.query.limit), DefaultLimit(rq.route))
  IN  [rq EXCEPT !.page = page, !.limit = limit, !.offset = (page - 1) * limit]

\* the pagination object of the response
Pagination(rq) ==
  LET totalPages == MathCeil(rq.total, rq.limit)
  IN  [currentPage |-> rq.page, totalPages |-> totalPages, total |-> rq.total,
       hasNext |-> rq.page < totalPages, hasPrev |-> rq.page > 1]

\* GET /api/users/:identifier: the lookup the handler issues for a segment
ResolveIdentifier(identifier) ==
  IF ~IsNaN(identifier)
  THEN [byId |-> TRUE, param |-> PNum(ParseInt(identifier))]
  ELSE [byId |-> FALSE,
        param |-> PText(IF Head(identifier) = "@" THEN identifier
                        ELSE <<"@">> \o identifier)]

RECURSIVE InsertByTimestamp(_, _)
\* x placed behind every item of the sorted list s that is not older
InsertByTimestamp(x, s) ==
  IF s = <<>> THEN <<x>>
  ELSE IF Head(s).timestamp >= x.timestamp
       THEN <<Head(s)>> \o InsertByTimestamp(x, Tail(s))
       ELSE <<x>> \o s

RECURSIVE SortByTimestampDesc(_)
\* items.sort((a, b) => new Date(b.timestamp) - new Date(a.timestamp)): a
\* stable sort, most recent first
SortByTimestampDesc(s) ==
  IF s = <<>> THEN <<>>
  ELSE InsertByTimestamp(s[Len(s)], SortByTimestampDesc(SubSeq(s, 1, Len(s) - 1)))

\* the two lists concatenated and cut without the sort
MergeActivityUnsorted(conversations, messages, limit) ==
  SliceTo(conversations \o messages, limit)

\* [...conversations.rows, ...messages.rows].sort(...).slice(0, limit)
MergeActivity(conversations, messages, limit) ==
  SliceTo(SortByTimestampDesc(conversations \o messages), limit)

\* the rows of the first n timestamps of a table, tagged with their type
TopRows(type, table, n) ==
  [i \in 1..(IF n < Len(table) THEN n ELSE Len(table)) |->
     [type |-> type, reference_id |-> i, timestamp |-> table[i]]]

(***************************************************************************)
(* The handlers, as the steps they take between two awaits.                *)
(***************************************************************************)
Plain(name) == Query(name, <<>>, <<>>, <<>>)

\* from `await client.connect()` resolving to the handler's first await of
\* queries
AfterConnect(rq) ==
  CASE rq.route = "dashboard" ->
         Issue(rq, "all", <<Plain("userCount"), Plain("genderStats"),
                            Plain("messageStats"), Plain("dailyMessages")>>)
    [] rq.route \in {"users", "conversations", "messages"} ->
         LET p == Paging(rq)
             b == Predicate(rq.route, rq.query)
             queryParams == b.params \o <<PInt(p.limit), PInt(p.offset)>>
         IN  Issue(p, "all",
                   <<Query("count", b.where, SliceOffTwo(queryParams), <<>>),
                     Query("page", b.where, queryParams,
                           <<b.paramIndex, b.paramIndex + 1>>)>>)
    [] rq.route = "userDetails" ->
         LET l == ResolveIdentifier(rq.path[2])
         IN  Issue([rq EXCEPT !.lookup = l], "user",
                   <<Query("user",
                           <<WhereTok, Cond(IF l.byId THEN "user_id =" ELSE "username =", 1)>>,
                           <<l.param>>, <<>>)>>)
    [] rq.route = "conversationDetails" ->
         LET w == <<WhereTok, Cond("id =", 1)>>
         IN  Issue(rq, "all",
                   <<Query("conversation", w, <<PText(rq.path[2])>>, <<>>),
                     Query("messages", <<WhereTok, Cond("conversation_id =", 1)>>,
                           <<PText(rq.path[2])>>, <<>>)>>)
    [] rq.route = "userConversations" ->
         LET p == Paging(rq)
             w == <<WhereTok, Cond("user1_id = or user2_id =", 1)>>
             userId == PNum(ParseInt(rq.path[2]))
         IN  Issue(p, "all",
                   <<Query("page", w, <<userId, PInt(p.limit), PInt(p.offset)>>, <<2, 3>>),
                     Query("count", w, <<userId>>, <<>>)>>)
    [] rq.route = "searchUsers" ->
         LET limit == OrDefault(ParseIntParam(rq.query.limit), 10)
         IN  Issue([rq EXCEPT !.limit = limit], "all",
                   <<Query("search",
                           <<WhereTok, Cond("username ILIKE or user_id::text =", 1)>>,
                           <<Like(rq.path[3]), PText(rq.path[3]), PInt(limit)>>, <<3>>)>>)
    [] rq.route = "activity" ->
         LET limit == OrDefault(ParseIntParam(rq.query.limit), 20)
         IN  Issue([rq EXCEPT !.limit = limit], "all",
                   <<Query("recentConversations", <<>>, <<PInt(limit)>>, <<1>>),
                     Query("recentMessages", <<>>, <<PInt(limit)>>, <<1>>)>>)
    [] rq.route = "analytics" ->
         Issue(rq, "all", <<Plain("userGrowth"), Plain("conversations"),
                            Plain("messages"), Plain("activeUsers")>>)

\* a lookup whose empty result is not tested
RowsEmptyNeverTested(rq) == FALSE

\* userResult.rows.length === 0, conversationResult.rows.length === 0
RowsEmpty(rq) == ~rq.found

\* what the handler keeps of the rows of query q, given the store d
Answer(rq, q, d) ==
  CASE q = "count" -> [rq EXCEPT !.total = d.total]
    [] q = "conversationStats" ->
         [rq EXCEPT !.summaryRows = d.summaryRows,
                    !.conversationStats =
                      IF d.summaryRows > 0 THEN d.summaryRow ELSE @]
    [] q = "conversationStatsFallback" ->
         [rq EXCEPT !.conversationStats = FallbackRow(d.conversationTable)]
    [] q = "user" ->
         LET rows == {u \in StoredUsers :
                        IF rq.lookup.byId
                        THEN rq.lookup.param.kind = "int"
                             /\ u.user_id = rq.lookup.param.n
                        ELSE u.username = rq.lookup.param.text}
         IN  IF rows = {} THEN [rq EXCEPT !.found = FALSE]
             ELSE [rq EXCEPT !.found = TRUE,
                             !.userId = (CHOOSE u \in rows : TRUE).user_id]
    [] q = "conversation" ->
         [rq EXCEPT !.found = rq.path[2] \in StoredConversations]
    [] q = "recentConversations" ->
         [rq EXCEPT !.conversations = TopRows("conversation", d.conversations, rq.limit)]
    [] q = "recentMessages" ->
         [rq EXCEPT !.messages = TopRows("message", d.messages, rq.limit)]
    [] OTHER -> rq

\* the handler resumes after every query it awaited has resolved
Resume(rq) ==
  CASE rq.route = "dashboard" /\ rq.stage = "all" ->
         Issue(rq, "stats", <<Plain("conversationStats")>>)
    [] rq.route = "dashboard" /\ rq.stage = "stats" ->
         IF rq.summaryRows > 0
         THEN Reply(rq, DashboardResponse(rq))
         ELSE Issue(rq, "fallback", <<Plain("conversationStatsFallback")>>)
    [] rq.route = "dashboard" /\ rq.stage \in {"fallback", "fallbackInCatch"} ->
         Reply(rq, DashboardResponse(rq))
    [] rq.route \in {"users", "conversations", "messages", "userConversations"} ->
         Reply(rq, Response200(rq, Pagination(rq), <<>>))
    [] rq.route = "userDetails" /\ rq.stage = "user" ->
         IF RowsEmpty(rq)
         THEN Reply(rq, Response404("User not found"))
         ELSE LET w == <<WhereTok, Cond("user1_id = or user2_id =", 1)>>
              IN  Issue(rq, "all",
                        <<Query("conversationCount", w, <<PInt(rq.userId)>>, <<>>),
                          Query("messageCount", <<WhereTok, Cond("sender_user_id =", 1)>>,
                                <<PInt(rq.userId)>>, <<>>),
                          Query("recentConversations", w, <<PInt(rq.userId)>>, <<>>)>>)
    [] rq.route = "conversationDetails" ->
         IF RowsEmpty(rq)
         THEN Reply(rq, Response404("Conversation not found"))
         ELSE Reply(rq, Response200(rq, NoPagination, <<>>))
    [] rq.route = "activity" ->
         Reply(rq, Response200(rq, NoPagination,
                               MergeActivity(rq.conversations, rq.messages, rq.limit)))
    [] OTHER -> Reply(rq, Response200(rq, NoPagination, <<>>))

\* the handler resumes after a query it awaited has rejected: the inner
\* try/catch of the dashboard handler covers the summary read and the
\* fallback issued inside the try; everything else reaches the outer catch
OnReject(rq, q) ==
  IF rq.route = "dashboard" /\ rq.stage \in {"stats", "fallback"}
  THEN Issue(rq, "fallbackInCatch", <<Plain("conversationStatsFallback")>>)
  ELSE HandleError(rq, q)

\* the last query of that name the handler issued
LastIssued(rq, q) ==
  rq.issued[CHOOSE i \in 1..Len(rq.issued) :
              /\ rq.issued[i].q.name = q
              /\ \A j \in (i + 1)..Len(rq.issued) : rq.issued[j].q.name # q].q

\* PostgreSQL raises an error for a negative LIMIT or OFFSET.  q.ph are the
\* placeholders of LIMIT and OFFSET.
LimitOffsetAccepted(q) ==
  \A i \in 1..Len(q.ph) :
    q.params[q.ph[i]].kind = "int" /\ q.params[q.ph[i]].n >= 0

\* the column tests on the numeric identifiers of users and conversations
NumericIdConditions ==
  {"id =", "conversation_id =", "user_id =", "user1_id = or user2_id =",
   "sender_user_id =", "sender_user_id = or receiver_user_id ="}

\* a value the store takes for a numeric identifier: an integer, or a text
\* that is an optionally signed run of digits; anything else (NaN, 'abc',
\* '1.1') is an input syntax error
NumericIdAccepted(p) ==
  \/ p.kind = "int"
  \/ /\ p.kind = "text"
     /\ LET body == IF p.text # <<>> /\ Head(p.text) \in {"-", "+"}
                    THEN Tail(p.text) ELSE p.text
        IN  body # <<>> /\ AllDigits(body)

\* the store raises an error for a query that compares a numeric identifier
\* with a value it does not take
IdsAccepted(q) ==
  \A i \in 1..Len(q.where) :
    q.where[i].t \in NumericIdConditions => NumericIdAccepted(q.params[q.where[i].ph])

\* a query the store executes; any other never resolves
DbAccepts(q) == LimitOffsetAccepted(q) /\ IdsAccepted(q)

(***************************************************************************)
(* Actions.                                                                *)
(***************************************************************************)
Request(path, query) == [path |-> path, query |-> query]

\* Express runs the handler of the first matching route: createDBConnection()
\* and the call of client.connect()
Arrive(r, inputs) ==
  /\ req[r].pc = "idle"
  /\ \E in \in inputs :
       /\ Dispatch(in.path) # "none"
       /\ created' = Append(created, r)
       /\ req' = [req EXCEPT ![r] =
                    [IdleRequest EXCEPT !.pc = "connecting",
                                        !.route = Dispatch(in.path),
                                        !.path = in.path,
                                        !.query = in.query,
                                        !.client = Len(created) + 1,
                                        !.conn = "created"]]
  /\ UNCHANGED db

\* client.connect() resolves
ConnectOk(r) ==
  /\ req[r].pc = "connecting"
  /\ req' = [req EXCEPT ![r] = AfterConnect([req[r] EXCEPT !.conn = "open"])]
  /\ UNCHANGED <<db, created>>

\* client.connect() rejects
ConnectFail(r) ==
  /\ req[r].pc = "connecting"
  /\ req' = [req EXCEPT ![r] =
               HandleError([req[r] EXCEPT !.conn = "failed", !.failed = {"connect"}],
                           "connect")]
  /\ UNCHANGED <<db, created>>

\* one of the awaited queries resolves; the handler resumes with the last
QueryOk(r) ==
  /\ req[r].pc = "awaiting"
  /\ \E q \in req[r].pending :
       /\ DbAccepts(LastIssued(req[r], q))
       /\ LET a == Answer([req[r] EXCEPT !.pending = @ \ {q}], q, db)
          IN  req' = [req EXCEPT ![r] = IF a.pending = {} THEN Resume(a) ELSE a]
  /\ UNCHANGED <<db, created>>

\* one of the awaited queries rejects: Promise.all (or the single await)
\* rejects at once and the handler resumes in its catch block
QueryFail(r) ==
  /\ req[r].pc = "awaiting"
  /\ \E q \in req[r].pending :
       req' = [req EXCEPT ![r] =
                 OnReject([req[r] EXCEPT !.failed = @ \cup {q},
                                         !.pending = @ \ {q}], q)]
  /\ UNCHANGED <<db, created>>

\* client.end() resolves and the handler returns
EndDone(r) ==
  /\ req[r].pc = "ending"
  /\ req' = [req EXCEPT ![r] =
               [req[r] EXCEPT !.pc = "done",
                              !.conn = IF @ = "open" THEN "closed" ELSE @]]
  /\ UNCHANGED <<db, created>>

Handle(r) ==
  \/ ConnectOk(r)
  \/ ConnectFail(r)
  \/ QueryOk(r)
  \/ QueryFail(r)
  \/ EndDone(r)

(***************************************************************************)
(* The server: concurrent requests to every route.                         *)
(***************************************************************************)
ServerSegments == {<<"1">>, <<"2">>}

ServerPaths ==
  {<<<<"dashboard">>, <<"stats">>>>, <<<<"users">>>>, <<<<"conversations">>>>,
   <<<<"messages">>>>, <<<<"activity">>, <<"recent">>>>,
   <<<<"analytics">>, <<"usage">>>>}
  \cup {<<<<"users">>, s>> : s \in ServerSegments}
  \cup {<<<<"conversations">>, s>> : s \in ServerSegments}
  \cup {<<<<"users">>, s, <<"conversations">>>> : s \in {<<"1">>}}
  \cup {<<<<"users">>, <<"search">>, s>> : s \in {<<"1">>, <<"conversations">>}}

ServerRequests == {Request(p, NoQuery) : p \in ServerPaths}

\* a conversations table of one active conversation of two messages
OneConversation ==
  [k \in ConversationKinds |->
     IF k = [status |-> "active", message_count |-> 2, today |-> TRUE]
     THEN 1 ELSE 0]

ServerStores ==
  [total : {2}, summaryRows : {0, 1}, conversations : {<<2, 1>>},
   messages : {<<3>>}, summaryRow : {NoRow},
   conversationTable : {OneConversation}]

Init ==
  /\ db \in ServerStores
  /\ created = <<>>
  /\ req = [r \in Slots |-> IdleRequest]

Next == \E r \in Slots : Arrive(r, ServerRequests) \/ Handle(r)

Spec == Init /\ [][Next]_vars

(***************************************************************************)
(* One request at a time, with the inputs of one handler family drawn      *)
(* widely.                                                                 *)
(***************************************************************************)
InitWith(stores) ==
  /\ db \in stores
  /\ created = <<>>
  /\ req = [r \in Slots |-> IdleRequest]

\* texts of at most two symbols, as page and limit values
ParamAlphabet == {"-", "0", "1", "2", "a"}

ParamTexts ==
  {Absent, Text(<<>>)}
  \cup {Text(<<a>>) : a \in ParamAlphabet}
  \cup {Text(<<a, b>>) : a, b \in ParamAlphabet}

PagingPaths ==
  {<<<<"users">>>>, <<<<"conversations">>>>, <<<<"messages">>>>,
   <<<<"users">>, <<"1">>, <<"conversations">>>>}

PagingRequests ==
  {Request(p, [NoQuery EXCEPT !.page = pg, !.limit = lm]) :
     p \in PagingPaths, pg \in ParamTexts, lm \in ParamTexts}

PagingStores ==
  [total : 0..MaxTotal, summaryRows : {1}, conversations : {<<>>},
   messages : {<<>>}, summaryRow : {NoRow},
   conversationTable : {OneConversation}]

InitPaging == InitWith(PagingStores)

NextPaging == Arrive(1, PagingRequests) \/ Handle(1)

SpecPaging == InitPaging /\ [][NextPaging]_vars

\* filter values: absent, empty, and two non-empty texts
FilterTexts == {Absent, Text(<<>>), Text(<<"0">>), Text(<<"a">>)}

FilterRequests ==
  {Request(<<<<"users">>>>, [NoQuery EXCEPT !.search = a, !.gender = b]) :
     a, b \in FilterTexts}
  \cup {Request(<<<<"conversations">>>>, [NoQuery EXCEPT !.status = a, !.search = b]) :
          a, b \in FilterTexts}
  \cup {Request(<<<<"messages">>>>,
                [NoQuery EXCEPT !.conversation_id = a, !.user_id = b,
                                !.search = c, !.date_from = d, !.date_to = e]) :
          a, b, c, d, e \in FilterTexts}

FilterStores ==
  [total : {2}, summaryRows : {1}, conversations : {<<>>}, messages : {<<>>},
   summaryRow : {NoRow}, conversationTable : {OneConversation}]

InitFilters == InitWith(FilterStores)

NextFilters == Arrive(1, FilterRequests) \/ Handle(1)

SpecFilters == InitFilters /\ [][NextFilters]_vars

\* path segments of up to MaxSegLen symbols
SegmentAlphabet == {"1", "2", ".", "@", "a"}

Segments ==
  UNION {[1..n -> SegmentAlphabet] : n \in 1..MaxSegLen}

LookupRequests ==
  {Request(<<<<"users">>, s>>, NoQuery) : s \in Segments}
  \cup {Request(<<<<"conversations">>, s>>, NoQuery) : s \in Segments}

InitLookup == InitWith(FilterStores)

NextLookup == Arrive(1, LookupRequests) \/ Handle(1)

SpecLookup == InitLookup /\ [][NextLookup]_vars

RECURSIVE Tables(_)
\* the tables of at most n rows: their timestamps, most recent first
Tables(n) ==
  IF n = 0 THEN {<<>>}
  ELSE LET shorter == Tables(n - 1)
       IN  shorter \cup
           {<<p[1]>> \o p[2] :
              p \in {y \in (1..MaxTs) \X shorter :
                       /\ Len(y[2]) = n - 1
                       /\ (y[2] # <<>> => y[2][1] <= y[1])}}

ActivityLimits ==
  {Absent, Text(<<"0">>), Text(<<"-", "1">>), Text(<<"1">>), Text(<<"2">>),
   Text(<<"3">>), Text(<<"4">>)}

ActivityRequests ==
  {Request(<<<<"activity">>, <<"recent">>>>, [NoQuery EXCEPT !.limit = lm]) :
     lm \in ActivityLimits}

ActivityStores ==
  [total : {0}, summaryRows : {1}, conversations : Tables(MaxRows),
   messages : Tables(MaxRows), summaryRow : {NoRow},
   conversationTable : {OneConversation}]

InitActivity == InitWith(ActivityStores)

NextActivity == Arrive(1, ActivityRequests) \/ Handle(1)

SpecActivity == InitActivity /\ [][NextActivity]_vars

\* search texts: the generated segments and the words the routes use
SearchRequests ==
  {Request(<<<<"users">>, <<"search">>, s>>, [NoQuery EXCEPT !.limit = lm]) :
     s \in Segments \cup {<<"conversations">>, <<"search">>, <<"users">>},
     lm \in {Absent, Text(<<"2">>)}}

InitSearch == InitWith(FilterStores)

NextSearch == Arrive(1, SearchRequests) \/ Handle(1)

SpecSearch == InitSearch /\ [][NextSearch]_vars

\* the rows conversation_stats may hold: every column null or a value
SummaryRowValues ==
  [total_conversations : {Absent, Text(<<"0">>), Text(<<"7">>)},
   active_conversations : {Absent, Text(<<"3">>)},
   ended_conversations : {Absent, Text(<<"4">>)},
   avg_messages_per_conversation : {Absent, Text(<<"1", ".", "7", "5">>)},
   conversations_today : {Absent, Text(<<"1">>)}]

\* the conversations tables of at most MaxConvRows rows
ConversationTables ==
  {t \in [ConversationKinds -> 0..MaxConvRows] :
     SumOver(t, ConversationKinds) <= MaxConvRows}

DashboardRequests == {Request(<<<<"dashboard">>, <<"stats">>>>, NoQuery)}

\* conversation_stats holds no row or one; the table behind the fallback
\* varies independently
DashboardStores ==
  {d \in [total : {2}, summaryRows : {0, 1}, conversations : {<<>>},
          messages : {<<>>}, summaryRow : SummaryRowValues \cup {NoRow},
          conversationTable : ConversationTables] :
     d.summaryRows = 0 => d.summaryRow = NoRow}

InitDashboard == InitWith(DashboardStores)

NextDashboard == Arrive(1, DashboardRequests) \/ Handle(1)

SpecDashboard == InitDashboard /\ [][NextDashboard]_vars

(***************************************************************************)
(* Properties.                                                             *)
(***************************************************************************)
PaginatedRoutes == {"users", "conversations", "messages", "userConversations"}

FilteredRoutes == {"users", "conversations", "messages"}

\* the handler of rq has called client.query for a query of that name
HasIssued(rq, q) == \E i \in 1..Len(rq.issued) : rq.issued[i].q.name = q

\* how many times the handler of rq has issued the query of that name
TimesIssued(rq, q) ==
  Cardinality({i \in 1..Len(rq.issued) : rq.issued[i].q.name = q})

\* rq has been answered with status st
Answered(rq, st) == rq.resp # <<>> /\ rq.resp[1].status = st

\* n is the least integer that is at least a / b
IsCeiling(n, a, b) ==
  IF b > 0 THEN n * b >= a /\ (n - 1) * b < a
  ELSE n * b <= a /\ (n - 1) * b > a

\* C1: in every 200 response of a paginated endpoint, with limit and page
\* the values the page query was issued with (LIMIT limit, OFFSET
\* (page - 1) * limit) and total the count the store returned: totalPages is
\* ceil(total / limit), hasNext is page < totalPages, hasPrev is page > 1,
\* and a total of 0 gives totalPages 0 and hasNext false.
C1_PaginationSummary ==
  \A r \in Slots :
    LET rq == req[r] IN
    (rq.route \in PaginatedRoutes /\ Answered(rq, 200)) =>
      LET pg == rq.resp[1].pagination
          pq == LastIssued(rq, "page")
          limit == pq.params[pq.ph[1]].n
          offset == pq.params[pq.ph[2]].n
      IN  /\ limit # 0
          /\ offset = (pg.currentPage - 1) * limit
          /\ pg.total = db.total
          /\ IsCeiling(pg.totalPages, db.total, limit)
          /\ pg.hasNext = (pg.currentPage < pg.totalPages)
          /\ pg.hasPrev = (pg.currentPage > 1)
          /\ (db.total = 0 => pg.totalPages = 0 /\ ~pg.hasNext)

\* C1 witness: a 200 response for a middle page whose total is no multiple
\* of the limit
C1_Witness ==
  \E r \in Slots :
    /\ req[r].route \in PaginatedRoutes
    /\ Answered(req[r], 200)
    /\ req[r].limit = 2
    /\ db.total = 5
    /\ req[r].resp[1].pagination.totalPages = 3
    /\ req[r].resp[1].pagination.hasNext
    /\ req[r].resp[1].pagination.hasPrev

\* the summary read of the dashboard handler has resolved with a row
SummaryHasRow(rq) ==
  /\ HasIssued(rq, "conversationStats")
  /\ "conversationStats" \notin rq.pending \cup rq.failed
  /\ rq.summaryRows > 0

\* the summary read of the dashboard handler has resolved with no row, or
\* has failed
SummaryEmptyOrFailed(rq) ==
  /\ HasIssued(rq, "conversationStats")
  /\ "conversationStats" \notin rq.pending
  /\ ("conversationStats" \in rq.failed \/ rq.summaryRows = 0)

\* C2: in a /dashboard/stats request, the fallback aggregation is never
\* issued once the summary read has returned a row, and is issued exactly
\* once when the summary read returned no row or failed, also when the
\* fallback itself fails.
C2_FallbackExactlyOnce ==
  \A r \in Slots :
    LET rq == req[r] IN
    rq.route = "dashboard" =>
      /\ SummaryHasRow(rq) => TimesIssued(rq, "conversationStatsFallback") = 0
      /\ SummaryEmptyOrFailed(rq) => TimesIssued(rq, "conversationStatsFallback") = 1

\* C3: a request's handler creates exactly one client, issues its queries
\* on that client only, has called client.end() exactly once when it has
\* answered (200, 404 or 500, failed connect included) and not before, and
\* leaves no connection open when it returns.
C3_ConnectionScoped ==
  \A r \in Slots :
    LET rq == req[r] IN
    /\ rq.pc = "idle" => \A c \in 1..Len(created) : created[c] # r
    /\ rq.pc # "idle" =>
         /\ Cardinality({c \in 1..Len(created) : created[c] = r}) = 1
         /\ rq.client \in 1..Len(created)
         /\ created[rq.client] = r
    /\ \A i \in 1..Len(rq.issued) : rq.issued[i].client = rq.client
    /\ rq.pc \in {"connecting", "awaiting"} => rq.endCalls = 0 /\ rq.resp = <<>>
    /\ rq.pc \in {"ending", "done"} => rq.endCalls = 1 /\ rq.resp # <<>>
    /\ rq.pc = "done" => rq.conn \in {"closed", "failed"}

\* C3 witness: two requests have returned, one after an early 404 and one
\* after a failed connect, each with its own client ended once
C3_Witness ==
  \E r1, r2 \in Slots :
    /\ req[r1].pc = "done" /\ Answered(req[r1], 404) /\ req[r1].endCalls = 1
    /\ req[r2].pc = "done" /\ "connect" \in req[r2].failed /\ req[r2].endCalls = 1
    /\ req[r1].client # req[r2].client

\* the response shapes of the interface table
ExpectedKeys(route) ==
  CASE route = "dashboard"           -> {"users", "conversations", "messages"}
    [] route \in {"users", "searchUsers"} -> {"users"} \cup
                                             (IF route = "users" THEN {"pagination"} ELSE {})
    [] route = "userDetails"         -> {"user", "stats", "recentConversations"}
    [] route \in {"conversations", "userConversations"} -> {"conversations", "pagination"}
    [] route = "conversationDetails" -> {"conversation", "messages"}
    [] route = "messages"            -> {"messages", "pagination"}
    [] route = "activity"            -> {"activity"}
    [] route = "analytics"           -> {"userRegistrations", "conversations",
                                         "messages", "activeUsers"}

\* a response of one of the three documented forms
WellFormed(route, resp) ==
  \/ resp.status = 200 /\ resp.keys = ExpectedKeys(route)
  \/ /\ resp.status = 404
     /\ resp.keys = {"error"}
     /\ resp.error \in {"User not found", "Conversation not found"}
  \/ /\ resp.status = 500
     /\ resp.keys = {"error", "message", "context"}
     /\ resp.error = "Internal server error"
     /\ resp.context = Context(route)

\* C4: a request gets at most one response, exactly one once its handler
\* is past its try block, of one of the three documented forms; and when
\* the connect or any query other than the dashboard summary read has
\* failed, that response is the 500.
C4_OneResponseAndFailuresAre500 ==
  \A r \in Slots :
    LET rq == req[r] IN
    /\ Len(rq.resp) <= 1
    /\ rq.pc \in {"ending", "done"} => Len(rq.resp) = 1
    /\ \A i \in 1..Len(rq.resp) : WellFormed(rq.route, rq.resp[i])
    /\ (rq.resp # <<>> /\ rq.failed \ {"conversationStats"} # {}) =>
         rq.resp[1].status = 500

\* C4 without the fallback query: what holds of every other failure
C4_ExceptFallback ==
  \A r \in Slots :
    LET rq == req[r] IN
    /\ Len(rq.resp) <= 1
    /\ rq.pc \in {"ending", "done"} => Len(rq.resp) = 1
    /\ \A i \in 1..Len(rq.resp) : WellFormed(rq.route, rq.resp[i])
    /\ (rq.resp # <<>>
        /\ rq.failed \ {"conversationStats", "conversationStatsFallback"} # {}) =>
         rq.resp[1].status = 500

\* C10: once a paginated handler has issued its page query, its effective
\* page and limit are at least 1 and the OFFSET it passed is not negative.
C10_PageAndLimitAtLeastOne ==
  \A r \in Slots :
    LET rq == req[r] IN
    (rq.route \in PaginatedRoutes /\ HasIssued(rq, "page")) =>
      LET pq == LastIssued(rq, "page")
      IN  /\ rq.page >= 1
          /\ rq.limit >= 1
          /\ pq.params[pq.ph[1]].n >= 1
          /\ pq.params[pq.ph[2]].n >= 0

\* the path segment of a single-item request names nothing stored: a run
\* of digits that is no stored user id, a non-numeric text that is no stored
\* handle with or without its marker, a text that is no stored conversation
NothingStored(rq) ==
  LET s == rq.path[2] IN
  CASE rq.route = "userDetails" ->
         \/ AllDigits(s) /\ \A u \in StoredUsers : u.user_id # DecimalValue(s)
         \/ IsNaN(s) /\ \A u \in StoredUsers : u.username \notin {s, <<"@">> \o s}
    [] rq.route = "conversationDetails" -> s \notin StoredConversations
    [] OTHER -> FALSE

\* a database call of rq failed although the store executes it: the store
\* was unreachable or broke down
Outage(rq) ==
  \/ "connect" \in rq.failed
  \/ \E q \in rq.failed : DbAccepts(LastIssued(rq, q))

\* C5: unless the store is unreachable or breaks down, a request for a user
\* id, handle or conversation id that names nothing stored is answered 404
\* with the 'not found' error as its only field.
C5_NotFoundIs404 ==
  \A r \in Slots :
    LET rq == req[r] IN
    (NothingStored(rq) /\ rq.resp # <<>> /\ ~Outage(rq)) =>
      /\ rq.resp[1].status = 404
      /\ rq.resp[1].keys = {"error"}
      /\ rq.resp[1].error = (IF rq.route = "userDetails"
                             THEN "User not found"
                             ELSE "Conversation not found")

\* C5 for users, and for conversation ids that are runs of digits
C5_ExceptMalformedConversationId ==
  \A r \in Slots :
    LET rq == req[r] IN
    (NothingStored(rq) /\ rq.resp # <<>> /\ ~Outage(rq)
       /\ (rq.route = "conversationDetails" => AllDigits(rq.path[2]))) =>
      /\ rq.resp[1].status = 404
      /\ rq.resp[1].keys = {"error"}
      /\ rq.resp[1].error = (IF rq.route = "userDetails"
                             THEN "User not found"
                             ELSE "Conversation not found")

\* C6: the single-user handler issues exactly one lookup; when the whole
\* segment parses as a number the lookup is by the numeric identifier equal
\* to that number, otherwise by handle, with the marker prepended unless the
\* segment starts with it.
C6_IdentifierResolution ==
  \A r \in Slots :
    LET rq == req[r] IN
    (rq.route = "userDetails" /\ HasIssued(rq, "user")) =>
      LET s == rq.path[2]
          n == ToNumber(s)
          l == rq.lookup
      IN  /\ TimesIssued(rq, "user") = 1
          /\ LastIssued(rq, "user").params = <<l.param>>
          /\ IF ~n.isNaN
             THEN l.byId /\ l.param.kind = "int" /\ l.param.n * n.den = n.num
             ELSE /\ ~l.byId
                  /\ l.param.kind = "text"
                  /\ l.param.text = (IF s[1] = "@" THEN s ELSE <<"@">> \o s)

\* C6 on segments that are runs of digits or not numbers at all
C6_ExceptFractions ==
  \A r \in Slots :
    LET rq == req[r] IN
    (rq.route = "userDetails" /\ HasIssued(rq, "user")
       /\ (AllDigits(rq.path[2]) \/ IsNaN(rq.path[2]))) =>
      LET s == rq.path[2]
          n == ToNumber(s)
          l == rq.lookup
      IN  /\ TimesIssued(rq, "user") = 1
          /\ IF ~n.isNaN
             THEN l.byId /\ l.param.kind = "int" /\ l.param.n * n.den = n.num
             ELSE /\ ~l.byId
                  /\ l.param.text = (IF s[1] = "@" THEN s ELSE <<"@">> \o s)

\* the filters of a list endpoint, in the order of their declaration
DeclaredFilters(route) ==
  CASE route = "users"         -> <<"search", "gender">>
    [] route = "conversations" -> <<"status", "search">>
    [] route = "messages"      -> <<"conversation_id", "user_id", "search",
                                    "date_from", "date_to">>

FilterInput(q, f) ==
  CASE f = "search" -> q.search
    [] f = "gender" -> q.gender
    [] f = "status" -> q.status
    [] f = "conversation_id" -> q.conversation_id
    [] f = "user_id" -> q.user_id
    [] f = "date_from" -> q.date_from
    [] f = "date_to" -> q.date_to

\* a filter is active iff its input is present and not empty
Active(q, f) == FilterInput(q, f).present /\ FilterInput(q, f).text # <<>>

\* the active filters, in declaration order
ActiveFilters(route, q) ==
  LET IsActive(f) == Active(q, f)
  IN  SelectSeq(DeclaredFilters(route), IsActive)

\* the column test of each filter
FilterCondition(route, f) ==
  CASE f = "gender" -> "gender ="
    [] f = "status" -> "status ="
    [] f = "conversation_id" -> "conversation_id ="
    [] f = "user_id" -> "sender_user_id = or receiver_user_id ="
    [] f = "date_from" -> "timestamp >="
    [] f = "date_to" -> "timestamp <="
    [] f = "search" ->
         IF route = "users" THEN "username ILIKE"
         ELSE IF route = "conversations"
              THEN "user1_username ILIKE or user2_username ILIKE"
              ELSE "message ILIKE"

\* the condition tokens of a predicate, in order
Conditions(where) ==
  LET IsCond(t) == t.ph > 0
  IN  SelectSeq(where, IsCond)

\* C7: with k active filters, the predicate binds k parameters (the count
\* query gets k, the page query k and the two pagination values) and its
\* conditions are those of the active filters in declaration order, with
\* the placeholders 1..k in that order.
C7_ParametersMatchActiveFilters ==
  \A r \in Slots :
    LET rq == req[r] IN
    (rq.route \in FilteredRoutes /\ HasIssued(rq, "count")) =>
      LET act == ActiveFilters(rq.route, rq.query)
          k == Len(act)
          cq == LastIssued(rq, "count")
          pq == LastIssued(rq, "page")
      IN  /\ Len(cq.params) = k
          /\ Len(pq.params) = k + 2
          /\ Conditions(cq.where) =
               [i \in 1..k |-> Cond(FilterCondition(rq.route, act[i]), i)]
          /\ pq.where = cq.where

\* C7 witness: /messages with three active filters, the first declared
\* filter absent and the search filter empty
C7_Witness ==
  \E r \in Slots :
    /\ req[r].route = "messages"
    /\ HasIssued(req[r], "count")
    /\ ActiveFilters("messages", req[r].query) = <<"user_id", "date_from", "date_to">>
    /\ req[r].query.search = Text(<<>>)
    /\ Len(LastIssued(req[r], "count").params) = 3

\* C8: with no active filter the predicate and its parameter list are
\* empty; with k active filters it is WHERE, a condition, and k - 1 times
\* AND and a condition: one WHERE, in front, and k - 1 ANDs.
C8_OneWhereThenAnds ==
  \A r \in Slots :
    LET rq == req[r] IN
    (rq.route \in FilteredRoutes /\ HasIssued(rq, "count")) =>
      LET k == Len(ActiveFilters(rq.route, rq.query))
          cq == LastIssued(rq, "count")
          w == cq.where
      IN  IF k = 0 THEN w = <<>> /\ cq.params = <<>>
          ELSE /\ Len(w) = 2 * k
               /\ w[1] = WhereTok
               /\ \A i \in 2..k : w[2 * i - 1] = AndTok
               /\ \A i \in 1..k : w[2 * i].ph > 0
               /\ Cardinality({i \in 1..Len(w) : w[i] = WhereTok}) = 1
               /\ Cardinality({i \in 1..Len(w) : w[i] = AndTok}) = k - 1

\* C8 witness: /messages with only the last two declared filters active
C8_Witness ==
  \E r \in Slots :
    /\ req[r].route = "messages"
    /\ HasIssued(req[r], "count")
    /\ ActiveFilters("messages", req[r].query) = <<"date_from", "date_to">>
    /\ Len(LastIssued(req[r], "count").where) = 4

\* the rows of both activity tables
AllRows ==
  {[type |-> "conversation", reference_id |-> i, timestamp |-> db.conversations[i]] :
     i \in 1..Len(db.conversations)}
  \cup {[type |-> "message", reference_id |-> i, timestamp |-> db.messages[i]] :
          i \in 1..Len(db.messages)}

\* C9: the 200 response of /activity/recent with limit N holds min(N, total)
\* distinct rows of the two tables, each with its discriminant, most recent
\* first, and no row left out is more recent than a row it holds.
C9_ActivityIsGlobalTopN ==
  \A r \in Slots :
    LET rq == req[r] IN
    (rq.route = "activity" /\ Answered(rq, 200)) =>
      LET out == rq.resp[1].activity
          n == LastIssued(rq, "recentMessages").params[1].n
          total == Cardinality(AllRows)
          held == {out[i] : i \in 1..Len(out)}
      IN  /\ Len(out) = (IF n < total THEN n ELSE total)
          /\ held \subseteq AllRows
          /\ Cardinality(held) = Len(out)
          /\ \A i, j \in 1..Len(out) : i < j => out[i].timestamp >= out[j].timestamp
          /\ \A x \in AllRows \ held : \A y \in held : y.timestamp >= x.timestamp

\* C9 witness: three conversations and three messages, limit 4; the answer
\* holds rows of both tables and leaves out a message that its own top-4
\* list held
C9_Witness ==
  \E r \in Slots :
    /\ req[r].route = "activity"
    /\ Answered(req[r], 200)
    /\ req[r].limit = 4
    /\ Len(db.conversations) = 3
    /\ Len(db.messages) = 3
    /\ db.messages[1] > db.conversations[1]
    /\ Len(req[r].resp[1].activity) = 4
    /\ req[r].resp[1].activity[1].type = "message"
    /\ req[r].resp[1].activity[4].type = "conversation"

\* the row the conversations object of a 200 dashboard response is built
\* from: the summary row when the summary read returned one, the fallback
\* aggregation of the conversations table otherwise
SourceRow(rq) ==
  IF SummaryHasRow(rq) THEN db.summaryRow ELSE FallbackRow(db.conversationTable)

\* n is the integer a count column holds, 0 for a null column
IsCountOf(n, column) ==
  /\ ~n.isNaN
  /\ n.val = (IF column.present THEN DecimalValue(column.text) ELSE 0)

\* n is an integer nearest to the number an average column holds, 0 for a
\* null column
IsRoundingOf(n, column) ==
  /\ ~n.isNaN
  /\ IF column.present
     THEN LET x == ToNumber(column.text)
              d == 2 * (n.val * x.den - x.num)
          IN  ~x.isNaN /\ d <= x.den /\ 0 - d <= x.den
     ELSE n.val = 0

\* C11: in /dashboard/stats the failure of the summary read is never the
\* error of a 500 response; when the summary read failed or returned no row
\* the only error answered is the fallback's own, and the answer is 200 when
\* no fallback failed.  Every 200 response has the same shape whichever path
\* built it: the keys of the interface table, and conversations.total,
\* active, ended and today the integers of the columns of the row used,
\* avgMessages an integer nearest to its average, each 0 for a null column.
C11_FallbackTransparent ==
  \A r \in Slots :
    LET rq == req[r] IN
    (rq.route = "dashboard" /\ rq.resp # <<>>) =>
      LET resp == rq.resp[1]
          row  == SourceRow(rq)
          c    == resp.conversations
      IN  /\ resp.status \in {200, 500}
          /\ resp.status = 500 => resp.message # "conversationStats"
          /\ SummaryEmptyOrFailed(rq) =>
                /\ resp.status = 500 => resp.message = "conversationStatsFallback"
                /\ "conversationStatsFallback" \notin rq.failed => resp.status = 200
          /\ resp.status = 200 =>
                /\ resp.keys = {"users", "conversations", "messages"}
                /\ IsCountOf(c.total, row.total_conversations)
                /\ IsCountOf(c.active, row.active_conversations)
                /\ IsCountOf(c.ended, row.ended_conversations)
                /\ IsRoundingOf(c.avgMessages, row.avg_messages_per_conversation)
                /\ IsCountOf(c.today, row.conversations_today)

\* C11 witness: the summary read failed, the fallback aggregated two
\* conversations of one and two messages, and the 200 response carries
\* total 2 and the average 1.50 rounded to 2
C11_Witness ==
  \E r \in Slots :
    /\ req[r].route = "dashboard"
    /\ Answered(req[r], 200)
    /\ "conversationStats" \in req[r].failed
    /\ db.summaryRows = 1
    /\ req[r].conversationStats.avg_messages_per_conversation
         = Text(<<"1", ".", "5", "0">>)
    /\ req[r].resp[1].conversations.total = Num(2)
    /\ req[r].resp[1].conversations.avgMessages = Num(2)

\* C11 second case: a summary row with null columns and the average 1.75
\* is answered with 0 for the null columns and the average 2
C11_SummaryRowWitness ==
  \E r \in Slots :
    /\ req[r].route = "dashboard"
    /\ Answered(req[r], 200)
    /\ SummaryHasRow(req[r])
    /\ db.summaryRow.total_conversations = Absent
    /\ req[r].resp[1].conversations.total = Num(0)
    /\ req[r].resp[1].conversations.avgMessages = Num(2)

\* the sub-queries a handler passes to one Promise.all
ConcurrentGroups(route) ==
  CASE route = "dashboard" ->
         {{"userCount", "genderStats", "messageStats", "dailyMessages"}}
    [] route \in PaginatedRoutes -> {{"count", "page"}}
    [] route = "userDetails" ->
         {{"conversationCount", "messageCount", "recentConversations"}}
    [] OTHER -> {}

\* the sub-queries of a group are issued in one step of the handler
IssuedTogether(rq) ==
  \A g \in ConcurrentGroups(rq.route) :
    (\E q \in g : HasIssued(rq, q)) => \A q \in g : HasIssued(rq, q)

\* C12: the sub-queries of one Promise.all are all issued before the handler
\* waits for any of them; the handler has sent no response, success or
\* error, and has not called client.end(), while a query it issued is
\* outstanding, also after another of them failed.
C12_AllCompleteBeforeResponse ==
  \A r \in Slots :
    LET rq == req[r] IN
    /\ IssuedTogether(rq)
    /\ rq.resp # <<>> => rq.pending = {}
    /\ rq.endCalls > 0 => rq.pending = {}

\* C12 for the requests none of whose queries failed
C12_WhenNoQueryFails ==
  \A r \in Slots :
    LET rq == req[r] IN
    /\ IssuedTogether(rq)
    /\ rq.failed = {} =>
         /\ rq.resp # <<>> => rq.pending = {}
         /\ rq.endCalls > 0 => rq.pending = {}

\* the value a filter binds for the text of its input
FilterParameter(f, text) ==
  CASE f = "search"  -> PText(<<"%">> \o text \o <<"%">>)
    [] f = "user_id" -> PNum(ParseInt(text))
    [] OTHER         -> PText(text)

\* C13: on /users, /conversations and /messages, with k active filters, the
\* count query and the page query carry the same predicate; the count query
\* is executed with exactly the k values of the active filters, in
\* declaration order, and references no pagination placeholder; the page
\* query is executed with those k values followed by limit and offset, which
\* its LIMIT and OFFSET reference as placeholders k + 1 and k + 2.
C13_CountAndPageParameters ==
  \A r \in Slots :
    LET rq == req[r] IN
    (rq.route \in FilteredRoutes /\ HasIssued(rq, "page")) =>
      LET act == ActiveFilters(rq.route, rq.query)
          k == Len(act)
          cq == LastIssued(rq, "count")
          pq == LastIssued(rq, "page")
          filterParams ==
            [i \in 1..k |-> FilterParameter(act[i], FilterInput(rq.query, act[i]).text)]
      IN  /\ HasIssued(rq, "count")
          /\ cq.where = pq.where
          /\ cq.params = filterParams
          /\ cq.ph = <<>>
          /\ pq.params = filterParams \o <<PInt(rq.limit), PInt(rq.offset)>>
          /\ pq.ph = <<k + 1, k + 2>>
          /\ \A i \in 1..Len(cq.where) : cq.where[i].ph <= k

\* C13 witness: /messages filtered by conversation_id and search: the count
\* query ran with two values, the page query with four, LIMIT 50 as the
\* third and OFFSET 0 as the fourth
C13_Witness ==
  \E r \in Slots :
    /\ req[r].route = "messages"
    /\ HasIssued(req[r], "page")
    /\ ActiveFilters("messages", req[r].query) = <<"conversation_id", "search">>
    /\ Len(LastIssued(req[r], "count").params) = 2
    /\ LastIssued(req[r], "page").ph = <<3, 4>>
    /\ LastIssued(req[r], "page").params[3] = PInt(50)
    /\ LastIssued(req[r], "page").params[4] = PInt(0)

\* the path of rq has the form /users/search/<query>
IsSearchPath(path) ==
  /\ Len(path) = 3
  /\ path[1] = <<"users">>
  /\ path[2] = <<"search">>
  /\ path[3] # <<>>

\* C14: every request whose path is /users/search/<query> is run by the
\* user-search handler, whatever <query> is: its only query is the search,
\* bound to <query>, and its 200 response is {users: [...]}.
C14_SearchPathServedBySearch ==
  \A r \in Slots :
    LET rq == req[r] IN
    (rq.pc # "idle" /\ IsSearchPath(rq.path)) =>
      /\ rq.route = "searchUsers"
      /\ \A i \in 1..Len(rq.issued) :
           /\ rq.issued[i].q.name = "search"
           /\ rq.issued[i].q.params[2] = PText(rq.path[3])
      /\ Answered(rq, 200) => rq.resp[1].keys = {"users"}

\* C14 for every <query> other than the word conversations
C14_ExceptConversations ==
  \A r \in Slots :
    LET rq == req[r] IN
    (rq.pc # "idle" /\ IsSearchPath(rq.path)
       /\ rq.path[3] # <<"conversations">>) =>
      /\ rq.route = "searchUsers"
      /\ \A i \in 1..Len(rq.issued) :
           /\ rq.issued[i].q.name = "search"
           /\ rq.issued[i].q.params[2] = PText(rq.path[3])
      /\ Answered(rq, 200) => rq.resp[1].keys = {"users"}

\* the request /users/search/conversations has been run by the handler of
\* /users/:userId/conversations with the user id NaN
SearchCapturedByUserConversations ==
  \E r \in Slots :
    /\ req[r].path = <<<<"users">>, <<"search">>, <<"conversations">>>>
    /\ req[r].route = "userConversations"
    /\ HasIssued(req[r], "count")
    /\ LastIssued(req[r], "count").params = <<PNaN>>

====
